---- MODULE Spec2Model ----
(***************************************************************************)
(* shh: a multi-user secret store.  The project manifest (.shh) holds the  *)
(* users' public keys and, per user, one envelope (wrapped AES key and     *)
(* ciphertext) per secret.  Every command of main.go is one action that    *)
(* loads the manifest, works on the in-memory copy and persists it with    *)
(* EncodeToFile, or returns early without persisting.  rotate is modelled  *)
(* a second time with one action per file operation, each of which can     *)
(* fail, serve as the goroutines of the daemon under a clock, and two      *)
(* commands at the same time as a load and a persist step each.            *)
(***************************************************************************)
EXTENDS Integers, Sequences, FiniteSets, TLC

VARIABLES
    file,    \* the project file .shh: [exists, keys, secrets]
    disk,    \* per user, the generation of the private key in ~/.config/shh/id_rsa
    last,    \* the command that has just run, its arguments and how it ended
    home,    \* per user, the other files of ~/.config/shh: id_rsa.pub, the
             \* backups and the tmp directory of rotate
    rot,     \* a rotate that is under way: its position and its manifest
    srv,     \* the daemon of serve: password, lock, ticker, goroutines, clock
    cli      \* two invocations that run at the same time: what each has
             \* loaded and how far it is

vars == <<file, disk, last, home, rot, srv, cli>>

\* what the commands that run in one step leave alone
aside == <<rot, srv, cli>>

----------------------------------------------------------------------------
(* Bounds of the model *)

\* rand.Reader yields values of 1..MaxRand, successive reads in cyclic order
MaxRand == 2
\* rotate generates at most MaxGen new key pairs in all
MaxGen == 1

\* the clock of the daemon runs from 0 to MaxClock
MaxClock == 7
\* tickTime, in steps of the clock
Window == 3

\* a command is given at most MaxArgs arguments
MaxArgs == 3

Users == {"alice", "bob", "carol"}
Names == {"db", "api"}
Wildcard == "*"
Patterns == Names \cup {Wildcard}
\* secret values, as byte strings
Plaintexts == {<< >>, <<7>>}

\* aes.BlockSize
BlockSize == 16

----------------------------------------------------------------------------
(* Values *)

\* an empty Go map
EmptyMap == << >>

\* the key pair of user u, generation g
KeyPair(u, g) == <<u, g>>
NoKeyPair == <<"", 0>>

\* user.Keys.PublicKeyBlock / keys.PublicKeyBlock: the PEM block of a public key
PublicKeyBlock(k) == [kind |-> "RSA PUBLIC KEY", key |-> k]
\* a PEM block that pem.Decode accepts and that holds no PKCS1 public key
JunkBlock == [kind |-> "CERTIFICATE", key |-> NoKeyPair]
\* the public key of a pair whose private key the named user does not hold:
\* another user's key, or the user's key of before a rotation elsewhere
StrangeBlock == PublicKeyBlock(KeyPair("other", 0))
\* a $pubkey argument that is no PEM text at all
NotPem == [kind |-> "", key |-> NoKeyPair]

\* pem.Decode: the block, or nil
PemDecode(arg) == [nil |-> arg.kind = "", block |-> arg]

\* x509.ParsePKCS1PublicKey
ParsePKCS1PublicKey(block) ==
    [ok |-> block.kind = "RSA PUBLIC KEY", key |-> block.key]

\* rsa.EncryptOAEP under the public key of pair k
EncryptOAEP(k, aesKey) == [pk |-> k, aes |-> aesKey]

\* rsa.DecryptOAEP with the private key of pair k: fails under any other key
DecryptOAEP(k, wrapped) == [ok |-> wrapped.pk = k, aes |-> wrapped.aes]

\* base64.StdEncoding.EncodeToString
EncodeToString(data) == [b64 |-> TRUE, data |-> data]

\* base64.StdEncoding.DecodeString: fails on text that is not base64
DecodeString(s) == [ok |-> s.b64, data |-> s.data]

\* one byte of the CFB key stream of AES key a started from iv
KeyStream(a, iv, j) == (17 * a + 5 * iv[1] + j) % 256

\* encrypted := iv || XORKeyStream(plaintext)   (set, allow, edit)
Encrypt(a, ivSeed, plaintext) ==
    LET iv == [j \in 1..BlockSize |-> ivSeed]
    IN  iv \o [j \in 1..Len(plaintext) |->
                  (plaintext[j] + KeyStream(a, iv, j)) % 256]

\* iv := ciphertext[:BlockSize]; plaintext := XORKeyStream(ciphertext[BlockSize:])
\* defined for Len(ciphertext) >= BlockSize only: the slices panic otherwise
CFBDecrypt(a, ciphertext) ==
    LET iv   == SubSeq(ciphertext, 1, BlockSize)
        body == SubSeq(ciphertext, BlockSize + 1, Len(ciphertext))
    IN  [j \in 1..Len(body) |-> (body[j] + 256 - KeyStream(a, iv, j)) % 256]

\* the values a read of rand.Reader may yield
Rands == 1..MaxRand

\* the next value of rand.Reader after n reads
Advance(r, n) == ((r - 1 + n) % MaxRand) + 1

\* secret{AESKey: base64(encryptedAES), Encrypted: base64(encrypted)}
\* for one fan-out target, with the two reads of rand.Reader at position r
NewSecret(r, pubKey, plaintext) ==
    [AESKey    |-> EncodeToString(EncryptOAEP(pubKey, r)),
     Encrypted |-> EncodeToString(Encrypt(r, Advance(r, 1), plaintext))]

----------------------------------------------------------------------------
(* The manifest *)

\* shhFromPath on a missing file: an empty manifest
EmptyShh == [exists |-> FALSE, keys |-> EmptyMap, secrets |-> EmptyMap]

\* m[k] = v on a Go map
Put(m, k, v) == [x \in (DOMAIN m) \cup {k} |-> IF x = k THEN v ELSE m[x]]

\* delete(m, k) on a Go map
Delete(m, k) == [x \in (DOMAIN m) \ {k} |-> m[x]]

\* shh.Secrets[u], nil when u has none
SecretsOf(shh, u) == IF u \in DOMAIN shh.secrets THEN shh.secrets[u] ELSE EmptyMap

\* shh.EncodeToFile: the whole manifest replaces the file
EncodeToFile(shh) == [shh EXCEPT !.exists = TRUE]

\* all orders in which a range loop may visit the set S
Orders(S) ==
    {o \in [1..Cardinality(S) -> S] : \A x \in S : \E i \in DOMAIN o : o[i] = x}

\* The orders of a range loop that are explored.  Go leaves the order open.
\* The iterations write different entries, so the manifest a loop that runs
\* to its end leaves is the same in every order, and one order stands for
\* all (faulty = FALSE); the loops that may stop at an injected failure are
\* run in every order (faulty = TRUE).
RECURSIVE OneOrder(_)
OneOrder(S) ==
    IF S = {} THEN << >>
    ELSE LET x == CHOOSE x \in S : TRUE IN <<x>> \o OneOrder(S \ {x})

RangeOrders(S, faulty) == IF faulty THEN Orders(S) ELSE {OneOrder(S)}

\* the names some user holds a secret for
AllSecrets(shh) == UNION {DOMAIN shh.secrets[u] : u \in DOMAIN shh.secrets}

\* base64-decode one stored secret
DecodeSecret(sec) ==
    [ok        |-> DecodeString(sec.AESKey).ok /\ DecodeString(sec.Encrypted).ok,
     AESKey    |-> DecodeString(sec.AESKey).data,
     Encrypted |-> DecodeString(sec.Encrypted).data]

\* shh.GetSecretsForUser: the decoded secrets of user that pattern matches.
\* A name that exists and that the user has no entry for gives an empty result
\* and no error; a name no user holds is NotFound.
GetSecretsForUser(shh, pattern, user) ==
    LET userSecrets == SecretsOf(shh, user)
        matched == IF pattern = Wildcard THEN DOMAIN userSecrets
                   ELSE {pattern} \cap DOMAIN userSecrets
    IN  [err |-> \/ \E k \in matched : ~DecodeSecret(userSecrets[k]).ok
                 \/ (pattern # Wildcard /\ pattern \notin AllSecrets(shh)),
         secrets |-> [k \in matched |-> DecodeSecret(userSecrets[k])]]

\* a file that does not exist
None == -1

\* ~/.config/shh of a user beside id_rsa: the generation of the public key in
\* id_rsa.pub, of the copies in id_rsa.bak and id_rsa.pub.bak, and of the pair
\* in tmp/; minted: the key pairs createKeys has made for the user so far
NewHome == [pub |-> 0, bak |-> None, pubbak |-> None, tmp |-> None, minted |-> 0]

\* no rotate is under way
NoRotate == [pc |-> "none", user |-> "", shh |-> EmptyShh, steps |-> << >>]

\* the requests the daemon serves at a time
Reqs == {1, 2}

\* sync.Mutex: nobody holds it, the timer goroutine does, or a handler does
Free == << >>
TimerHolds == <<"timer">>
Handler(i) == <<"handler", i>>

\* no request in this place
NoRequest ==
    [pc |-> "none", path |-> "", method |-> "", body |-> "", status |-> 0,
     out |-> ""]

\* serve has not been run: nothing listens on the user's port
NoDaemon ==
    [up |-> FALSE, now |-> 0, password |-> "", mu |-> Free, deadline |-> 0,
     tickC |-> FALSE, timer |-> "select", reqs |-> [i \in Reqs |-> NoRequest],
     stored |-> None, quiet |-> FALSE, reset |-> None, held |-> ""]

\* the invocations that run at the same time
Procs == {1, 2}

\* no invocation in this place
NoProc ==
    [pc |-> "none", op |-> "", args |-> << >>, shh |-> EmptyShh, gen |-> 0,
     res |-> "", stale |-> FALSE]

\* no invocation is running; base and gens: the manifest and the generations
\* of the private keys when the first of the invocations loaded; wrote: the
\* invocations that have written the manifest, in the order of their writes
NoRace ==
    [procs |-> [p \in Procs |-> NoProc], base |-> EmptyShh,
     gens |-> [u \in Users |-> 0], wrote |-> << >>]

\* What the environment of a command does to it (how): "ok"; "password": the
\* password is not to be had or is wrong; "editor": the editor fails;
\* "noeditor": $EDITOR is unset.

\* a command, the arguments it ran with (the acting user among them) and how
\* it ended: with res "ok", "error" (an error value is returned) or "panic" (a
\* run-time panic); persisted: EncodeToFile wrote the manifest; pw: the
\* password was asked for; note: the step that decided the end.
Result(op, args, res, persisted, pw, note) ==
    [op |-> op, args |-> args, res |-> res, persisted |-> persisted, pw |-> pw,
     note |-> note]

\* no command is running: the shell is at its prompt
Idle == Result("none", << >>, "ok", FALSE, FALSE, "")

\* main returns or exits with status 1, and the next command can be given
Exit ==
    /\ last # Idle
    /\ last.res # "running"
    /\ last' = Idle
    /\ UNCHANGED <<file, disk, home, aside>>

\* run: every command but init needs a .shh file
MissingShh ==
    /\ last = Idle
    /\ ~file.exists
    /\ last' = Result("any", << >>, "error", FALSE, FALSE, "missing .shh")
    /\ UNCHANGED <<file, disk, home, aside>>

Init ==
    /\ file = EmptyShh
    /\ disk = [u \in Users |-> 0]
    /\ last = Idle
    /\ home = [u \in Users |-> NewHome]
    /\ rot = NoRotate
    /\ srv = NoDaemon
    /\ cli = NoRace

\* user.Keys.PublicKeyBlock: the public key block in u's id_rsa.pub
OwnBlock(u) == PublicKeyBlock(KeyPair(u, home[u].pub))

\* getKeys(configPath, password).PrivateKey: the private key in u's id_rsa
OwnKey(u) == KeyPair(u, disk[u])

----------------------------------------------------------------------------
(* init *)

InitShh(u) ==
    /\ last = Idle
    /\ last' = Result("init", <<u>>, IF file.exists THEN "error" ELSE "ok",
                      ~file.exists, FALSE, "")
    /\ file' = IF file.exists THEN file
               ELSE EncodeToFile([EmptyShh EXCEPT !.keys = Put(@, u, OwnBlock(u))])
    /\ UNCHANGED <<disk, home, aside>>

----------------------------------------------------------------------------
(* set *)

\* a failure of the random source or of the RSA encryption at the at-th
\* target of a fan-out; at = 0: none
Faults == {"rand", "iv", "wrap"}
NoFault == [kind |-> "none", at |-> 0]
FaultsIn(n) == {NoFault} \cup {[kind |-> k, at |-> i] : k \in Faults, i \in 1..n}

\* a set that writes for the acting user alone
SetTargetsActing(secrets, u, key) == {u}

\* the users set writes an entry for
SetTargets(secrets, u, key) ==
    {x \in DOMAIN secrets : x = u \/ key \in DOMAIN secrets[x]}

\* the range loop of set and of edit from its i-th target on: the manifest in
\* memory and how the loop ended
RECURSIVE FanOut(_, _, _, _, _, _, _)
FanOut(shh, r, order, i, key, plaintext, fault) ==
    IF i > Len(order) THEN [res |-> "ok", shh |-> shh, note |-> ""]
    ELSE LET username == order[i]
             here == fault.at = i
         IN  IF here /\ fault.kind \in {"rand", "iv"}
               THEN [res |-> "error", shh |-> shh, note |-> fault.kind]
             \* shh.Keys[username].Bytes on a nil *pem.Block
             ELSE IF username \notin DOMAIN shh.keys
               THEN [res |-> "panic", shh |-> shh, note |-> "nil key block"]
             ELSE LET pubKey == ParsePKCS1PublicKey(shh.keys[username])
                  IN  IF ~pubKey.ok
                        THEN [res |-> "error", shh |-> shh, note |-> "parse public key"]
                      ELSE IF here /\ fault.kind = "wrap"
                        THEN [res |-> "error", shh |-> shh, note |-> "wrap"]
                      ELSE FanOut(
                             [shh EXCEPT !.secrets[username] =
                                 Put(@, key, NewSecret(r, pubKey.key, plaintext))],
                             Advance(r, 2), order, i + 1, key, plaintext, fault)

\* a fan-out that writes the manifest in memory however the loop ended
CommitAlways(loop) == EncodeToFile(loop.shh)

\* what a fan-out leaves in the file: the manifest in memory is written only
\* when the loop ran to its end (every failure returns before EncodeToFile)
Commit(loop) == IF loop.res = "ok" THEN EncodeToFile(loop.shh) ELSE file

Set(u, key, plaintext, faulty) ==
    /\ last = Idle
    /\ file.exists
    /\ LET shh == IF u \in DOMAIN file.secrets THEN file
                  ELSE [file EXCEPT !.secrets = Put(@, u, EmptyMap)]
           targets == SetTargets(shh.secrets, u, key)
       IN  \E order \in RangeOrders(targets, faulty), r \in Rands,
              fault \in IF faulty THEN FaultsIn(Cardinality(targets)) ELSE {NoFault} :
             LET loop == FanOut(shh, r, order, 1, key, plaintext, fault)
             IN  /\ file' = Commit(loop)
                 /\ last' = Result("set", <<u, key, plaintext>>, loop.res, loop.res = "ok", FALSE, loop.note)
    /\ UNCHANGED <<disk, home, aside>>

----------------------------------------------------------------------------
(* get *)

\* the loop of get over the matched secrets: unwrap, check the length, decrypt
GetLoop(secrets, priv) ==
    IF \E k \in DOMAIN secrets :
          \/ ~DecryptOAEP(priv, secrets[k].AESKey).ok
          \/ Len(secrets[k].Encrypted) < BlockSize
      THEN "error"
      ELSE "ok"

Get(u, pattern, how) ==
    /\ last = Idle
    /\ file.exists
    /\ LET got == GetSecretsForUser(file, pattern, u)
       IN  last' = IF got.err
                     THEN Result("get", <<u, pattern>>, "error", FALSE, FALSE, "resolve")
                   ELSE IF how = "password"
                     THEN Result("get", <<u, pattern>>, "error", FALSE, TRUE, "password")
                   ELSE Result("get", <<u, pattern>>, GetLoop(got.secrets, OwnKey(u)),
                               FALSE, TRUE, "decrypt")
    /\ UNCHANGED <<file, disk, home, aside>>

----------------------------------------------------------------------------
(* del and deny *)

\* a deletion that keeps the user's map when it is empty
RemoveSecretsKeepMap(shh, user, matched) ==
    LET userSecrets == SecretsOf(shh, user)
        left == [k \in (DOMAIN userSecrets) \ matched |-> userSecrets[k]]
    IN  [shh EXCEPT !.secrets = Put(@, user, left)]

\* delete the matched names from the user's map, and the map when it is empty
RemoveSecrets(shh, user, matched) ==
    LET userSecrets == SecretsOf(shh, user)
        left == [k \in (DOMAIN userSecrets) \ matched |-> userSecrets[k]]
    IN  IF DOMAIN left = {}
          THEN [shh EXCEPT !.secrets = Delete(@, user)]
          ELSE [shh EXCEPT !.secrets = Put(@, user, left)]

\* a del that takes the matched names from every user
DelFromAll(u, pattern) ==
    /\ last = Idle
    /\ file.exists
    /\ LET got == GetSecretsForUser(file, pattern, u)
           all == [x \in DOMAIN file.secrets |->
                     [k \in (DOMAIN file.secrets[x]) \ DOMAIN got.secrets |->
                         file.secrets[x][k]]]
           full == {x \in DOMAIN all : DOMAIN all[x] # {}}
       IN  /\ file' = IF got.err THEN file
                      ELSE EncodeToFile([file EXCEPT !.secrets = [x \in full |-> all[x]]])
           /\ last' = Result("del", <<u, pattern>>, IF got.err THEN "error" ELSE "ok",
                             ~got.err, FALSE, "")
    /\ UNCHANGED <<disk, home, aside>>

Del(u, pattern) ==
    /\ last = Idle
    /\ file.exists
    /\ LET got == GetSecretsForUser(file, pattern, u)
       IN  /\ file' = IF got.err THEN file
                      ELSE EncodeToFile(RemoveSecrets(file, u, DOMAIN got.secrets))
           /\ last' = Result("del", <<u, pattern>>, IF got.err THEN "error" ELSE "ok",
                             ~got.err, FALSE, "")
    /\ UNCHANGED <<disk, home, aside>>

\* deny $user [$secret]: the pattern defaults to the wildcard
Deny(username, pattern) ==
    /\ last = Idle
    /\ file.exists
    /\ LET got == GetSecretsForUser(file, pattern, username)
       IN  /\ file' = IF got.err THEN file
                      ELSE EncodeToFile(RemoveSecrets(file, username, DOMAIN got.secrets))
           /\ last' = Result("deny", <<username, pattern>>,
                             IF got.err THEN "error" ELSE "ok", ~got.err, FALSE, "")
    /\ UNCHANGED <<disk, home, aside>>

----------------------------------------------------------------------------
(* allow *)

\* the loop of allow over the acting user's matched secrets, from the i-th on
RECURSIVE AllowLoop(_, _, _, _, _, _, _, _, _)
AllowLoop(shh, secrets, priv, pubKey, username, r, order, i, fault) ==
    IF i > Len(order) THEN [res |-> "ok", shh |-> shh, note |-> ""]
    ELSE LET key == order[i]
             sec == secrets[key]
             aesKey == DecryptOAEP(priv, sec.AESKey)
             here == fault.at = i
         IN  IF ~aesKey.ok THEN [res |-> "error", shh |-> shh, note |-> "unwrap"]
             \* ciphertext[:aes.BlockSize] with no check of the length
             ELSE IF Len(sec.Encrypted) < BlockSize
               THEN [res |-> "panic", shh |-> shh, note |-> "slice bounds"]
             ELSE IF here THEN [res |-> "error", shh |-> shh, note |-> fault.kind]
             ELSE AllowLoop(
                    [shh EXCEPT !.secrets[username] =
                        Put(@, key, NewSecret(r, pubKey,
                                              CFBDecrypt(aesKey.aes, sec.Encrypted)))],
                    secrets, priv, pubKey, username, Advance(r, 2), order, i + 1, fault)

\* an allow that takes zero matches for a match
NoMatchNever(secrets) == FALSE

\* len(secrets) == 0
NoMatch(secrets) == DOMAIN secrets = {}

Allow(u, username, secretKey, how, faulty) ==
    /\ last = Idle
    /\ file.exists
    /\ LET got == GetSecretsForUser(file, secretKey, u)
           shh == IF username \in DOMAIN file.secrets THEN file
                  ELSE [file EXCEPT !.secrets = Put(@, username, EmptyMap)]
           End(res, pw, note) ==
               Result("allow", <<u, username, secretKey>>, res, FALSE, pw, note)
       IN  IF username \notin DOMAIN file.keys
             THEN file' = file /\ last' = End("error", FALSE, "not a user")
           ELSE IF ~ParsePKCS1PublicKey(file.keys[username]).ok
             THEN file' = file /\ last' = End("error", FALSE, "parse public key")
           ELSE IF how = "password"
             THEN file' = file /\ last' = End("error", TRUE, "password")
           ELSE IF got.err
             THEN file' = file /\ last' = End("error", TRUE, "resolve")
           ELSE IF NoMatch(got.secrets)
             THEN file' = file /\ last' = End("error", TRUE, "no matching secrets")
           ELSE \E order \in RangeOrders(DOMAIN got.secrets, faulty), r \in Rands,
                   fault \in IF faulty THEN FaultsIn(Cardinality(DOMAIN got.secrets))
                             ELSE {NoFault} :
                  LET loop == AllowLoop(shh, got.secrets, OwnKey(u),
                                        ParsePKCS1PublicKey(file.keys[username]).key,
                                        username, r, order, 1, fault)
                  IN  /\ file' = Commit(loop)
                      /\ last' = Result("allow", <<u, username, secretKey>>, loop.res,
                                        loop.res = "ok", TRUE, loop.note)
    /\ UNCHANGED <<disk, home, aside>>

----------------------------------------------------------------------------
(* edit *)

\* sha1 of the plaintext, hex-encoded
Hash(plaintext) == <<"sha1", plaintext>>

\* the users edit re-encrypts for
EditTargets(secrets, key) == {x \in DOMAIN secrets : key \in DOMAIN secrets[x]}

\* the key and plaintext edit's loop leaves for the at most one matched secret;
\* with no match the key stays "" and the plaintext empty
EditDecrypt(secrets, priv) ==
    IF DOMAIN secrets = {}
      THEN [res |-> "ok", key |-> "", plaintext |-> << >>, note |-> ""]
    ELSE LET k == CHOOSE k \in DOMAIN secrets : TRUE
             aesKey == DecryptOAEP(priv, secrets[k].AESKey)
         IN  IF ~aesKey.ok
               THEN [res |-> "error", key |-> k, plaintext |-> << >>, note |-> "unwrap"]
             ELSE IF Len(secrets[k].Encrypted) < BlockSize
               THEN [res |-> "error", key |-> k, plaintext |-> << >>,
                     note |-> "too short"]
             ELSE [res |-> "ok", key |-> k, note |-> "",
                   plaintext |-> CFBDecrypt(aesKey.aes, secrets[k].Encrypted)]

\* an edit that never takes the file for unchanged
UnchangedNever(origHash, newHash) == FALSE

\* edit tells an unchanged file by the two checksums
Unchanged(origHash, newHash) == origHash = newHash

\* ioutil.TempFile("", "shh"): the file edit makes in os.TempDir, whether the
\* plaintext has been copied into it and what it holds
TempFile(copied, content) ==
    [exists |-> TRUE, copied |-> copied, content |-> content]

\* edit has returned before ioutil.TempFile
NoTempFile == [exists |-> FALSE, copied |-> FALSE, content |-> << >>]

\* how an edit ended, with the temporary file it leaves behind: edit closes
\* the file when it returns (defer fi.Close()) and removes it on no path
Left(result, fi) ==
    [op |-> result.op, args |-> result.args, res |-> result.res,
     persisted |-> result.persisted, pw |-> result.pw, note |-> result.note,
     fi |-> fi]

Edit(u, pattern, how, content, faulty) ==
    /\ last = Idle
    /\ file.exists
    /\ LET got == GetSecretsForUser(file, pattern, u)
           dec == EditDecrypt(got.secrets, OwnKey(u))
           End(res, pw, note) ==
               Result("edit", <<u, pattern, content>>, res, FALSE, pw, note)
       IN  IF how = "noeditor"
             THEN file' = file
                  /\ last' = Left(End("error", FALSE, "must set $EDITOR"), NoTempFile)
           ELSE IF how = "password"
             THEN file' = file /\ last' = Left(End("error", TRUE, "password"), NoTempFile)
           ELSE IF got.err
             THEN file' = file /\ last' = Left(End("error", TRUE, "resolve"), NoTempFile)
           ELSE IF Cardinality(DOMAIN got.secrets) > 1
             THEN file' = file
                  /\ last' = Left(End("error", TRUE, "multiple secrets"), NoTempFile)
           \* from here on the temporary file exists
           ELSE IF dec.res # "ok"
             THEN file' = file
                  /\ last' = Left(End(dec.res, TRUE, dec.note), TempFile(FALSE, << >>))
           ELSE IF how = "editor"
             THEN file' = file
                  /\ last' = Left(End("error", TRUE, "editor failed"),
                                  TempFile(TRUE, dec.plaintext))
           ELSE IF Unchanged(Hash(dec.plaintext), Hash(content))
             THEN file' = file
                  /\ last' = Left(End("ok", TRUE, "unchanged"), TempFile(TRUE, content))
           ELSE LET targets == EditTargets(file.secrets, dec.key)
                IN  \E order \in RangeOrders(targets, faulty), r \in Rands,
                       fault \in IF faulty THEN FaultsIn(Cardinality(targets))
                                 ELSE {NoFault} :
                      LET loop == FanOut(file, r, order, 1, dec.key, content, fault)
                      IN  /\ file' = Commit(loop)
                          /\ last' = Left(Result("edit", <<u, pattern, content>>,
                                                 loop.res, loop.res = "ok", TRUE,
                                                 loop.note),
                                          TempFile(TRUE, content))
    /\ UNCHANGED <<disk, home, aside>>

----------------------------------------------------------------------------
(* rotate *)

\* the number of key pairs that rotate has generated so far
RECURSIVE SumOver(_, _)
SumOver(f, S) ==
    IF S = {} THEN 0
    ELSE LET x == CHOOSE x \in S : TRUE IN f[x] + SumOver(f, S \ {x})

Generated(d) == SumOver(d, DOMAIN d)

\* a rotation that wraps the AES key under the old public key again
RewrapOldKey(sec, oldKey, newKey) ==
    [AESKey    |-> EncodeToString(EncryptOAEP(oldKey,
                       DecryptOAEP(oldKey, DecodeString(sec.AESKey).data).aes)),
     Encrypted |-> sec.Encrypted]

\* one secret of the rotating user under the new public key: the AES key is
\* unwrapped with the old private key and wrapped again, Encrypted is kept
Rewrap(sec, oldKey, newKey) ==
    [AESKey    |-> EncodeToString(EncryptOAEP(newKey,
                       DecryptOAEP(oldKey, DecodeString(sec.AESKey).data).aes)),
     Encrypted |-> sec.Encrypted]

\* the loop of rotate over shh.Secrets[user], then shh.Keys[user] = new block
RotateLoop(shh, user, oldKey, newKey, fault) ==
    LET secrets == SecretsOf(shh, user)
    IN  IF \E k \in DOMAIN secrets : ~DecodeString(secrets[k].AESKey).ok
          THEN [res |-> "error", shh |-> shh, note |-> "decode base64"]
        ELSE IF \E k \in DOMAIN secrets :
                   ~DecryptOAEP(oldKey, DecodeString(secrets[k].AESKey).data).ok
          THEN [res |-> "error", shh |-> shh, note |-> "unwrap"]
        ELSE IF fault /\ DOMAIN secrets # {}
          THEN [res |-> "error", shh |-> shh, note |-> "wrap"]
        ELSE [res |-> "ok", note |-> "",
              shh |-> [keys |-> Put(shh.keys, user, PublicKeyBlock(newKey)),
                       secrets |-> IF user \in DOMAIN shh.secrets
                                     THEN Put(shh.secrets, user,
                                              [k \in DOMAIN secrets |->
                                                  Rewrap(secrets[k], oldKey, newKey)])
                                     ELSE shh.secrets,
                       exists |-> shh.exists]]

Rotate(u, how, fault) ==
    /\ last = Idle
    /\ file.exists
    /\ Generated(disk) < MaxGen
    /\ LET loop == RotateLoop(file, u, OwnKey(u), KeyPair(u, disk[u] + 1), fault)
           res == IF how = "password" THEN "error" ELSE loop.res
       IN  /\ file' = IF res = "ok" THEN EncodeToFile(loop.shh) ELSE file
           /\ disk' = IF res = "ok" THEN [disk EXCEPT ![u] = @ + 1] ELSE disk
           /\ home' = IF res = "ok"
                         THEN [home EXCEPT ![u].pub = disk[u] + 1, ![u].minted = @ + 1]
                         ELSE home
           /\ last' = Result("rotate", <<u>>, res, res = "ok", TRUE,
                             IF how = "password" THEN "password" ELSE loop.note)
    /\ UNCHANGED aside

----------------------------------------------------------------------------
(* rotate, one file operation at a time: each of them can fail *)

\* the file operations of rotate after the manifest is ready in memory, in
\* the order of the code, named by the error each returns
RotateSteps ==
    <<"back up id_rsa", "back up id_rsa.pub", "encode .shh", "replace id_rsa",
      "replace id_rsa.pub", "delete id_rsa.bak", "delete id_rsa.pub.bak">>

\* the place of a step in RotateSteps
StepIndex(step) == CHOOSE i \in DOMAIN RotateSteps : RotateSteps[i] = step

\* a rotate that goes from the manifest straight to the deletion of the backups
StepAfterSkipsReplace(step) ==
    IF step = "encode .shh" THEN "delete id_rsa.bak"
    ELSE RotateSteps[StepIndex(step) + 1]

\* the step that follows when step has succeeded
StepAfter(step) == RotateSteps[StepIndex(step) + 1]

\* the key pairs createKeys has made so far
Minted(h) == SumOver([u \in DOMAIN h |-> h[u].minted], DOMAIN h)

\* the deferred os.RemoveAll(tmpDir)
RemoveTmp(h, u) == [h EXCEPT ![u].tmp = None]

\* rotate up to shh.Keys[user] = keys.PublicKeyBlock: the passwords, the new
\* pair in tmp/, the loop over the user's secrets
RotateBegin(u, how) ==
    /\ last = Idle
    /\ file.exists
    /\ rot.pc = "none"
    /\ Minted(home) < MaxGen
    /\ IF how = "password"
         THEN /\ last' = Result("rotate", <<u>>, "error", FALSE, TRUE, "password")
              /\ UNCHANGED <<home, rot>>
         ELSE LET gen == home[u].minted + 1
                  loop == RotateLoop(file, u, OwnKey(u), KeyPair(u, gen), FALSE)
              IN  IF loop.res = "ok"
                    THEN /\ home' = [home EXCEPT ![u].minted = gen, ![u].tmp = gen]
                         /\ rot' = [pc |-> RotateSteps[1], user |-> u,
                                    shh |-> loop.shh, steps |-> << >>]
                         /\ last' = Result("rotate", <<u>>, "running", FALSE, TRUE, "")
                    ELSE /\ home' = [home EXCEPT ![u].minted = gen]
                         /\ rot' = rot
                         /\ last' = Result("rotate", <<u>>, "error", FALSE, TRUE,
                                           loop.note)
    /\ UNCHANGED <<file, disk, srv, cli>>

\* what the step does to the files when it succeeds
StepFile(step) == IF step = "encode .shh" THEN EncodeToFile(rot.shh) ELSE file

StepDisk(step, u) ==
    IF step = "replace id_rsa" THEN [disk EXCEPT ![u] = home[u].tmp] ELSE disk

StepHome(step, u) ==
    CASE step = "back up id_rsa"        -> [home EXCEPT ![u].bak = disk[u]]
      [] step = "back up id_rsa.pub"    -> [home EXCEPT ![u].pubbak = home[u].pub]
      [] step = "replace id_rsa.pub"    -> [home EXCEPT ![u].pub = home[u].tmp]
      [] step = "delete id_rsa.bak"     -> [home EXCEPT ![u].bak = None]
      [] step = "delete id_rsa.pub.bak" -> [home EXCEPT ![u].pubbak = None]
      [] OTHER -> home

\* the next file operation of rotate: it succeeds (ok) and rotate goes on, or
\* returns nil after the last one; or it fails and rotate returns its error
RotateStep(ok) ==
    /\ rot.pc # "none"
    /\ LET u == rot.user
           step == rot.pc
           i == StepIndex(step)
           wrote == \E j \in DOMAIN rot.steps : rot.steps[j] = "encode .shh"
       IN  IF ~ok
             THEN /\ home' = RemoveTmp(home, u)
                  /\ rot' = NoRotate
                  /\ last' = Result("rotate", <<u>>, "error", wrote, TRUE, step)
                  /\ UNCHANGED <<file, disk>>
             ELSE /\ file' = StepFile(step)
                  /\ disk' = StepDisk(step, u)
                  /\ IF i = Len(RotateSteps)
                       THEN /\ home' = RemoveTmp(StepHome(step, u), u)
                            /\ rot' = NoRotate
                            /\ last' = Result("rotate", <<u>>, "ok", TRUE, TRUE, "")
                       ELSE /\ home' = StepHome(step, u)
                            /\ rot' = [rot EXCEPT !.pc = StepAfter(step),
                                                  !.steps = Append(@, step)]
                            /\ last' = last
    /\ UNCHANGED <<srv, cli>>

----------------------------------------------------------------------------
(* add-user and rm-user *)

\* add-user with no arguments: the acting user, with the key block of their
\* configuration
AddSelf(u) ==
    /\ last = Idle
    /\ file.exists
    /\ file' = IF u \in DOMAIN file.keys THEN file
               ELSE EncodeToFile([file EXCEPT !.keys = Put(@, u, OwnBlock(u))])
    /\ last' = Result("add-user", <<u>>, "ok", u \notin DOMAIN file.keys, FALSE, "self")
    /\ UNCHANGED <<disk, home, aside>>

\* add-user $user $pubkey
AddUser(username, pubkey) ==
    /\ last = Idle
    /\ file.exists
    /\ LET known == username \in DOMAIN file.keys
           bad == PemDecode(pubkey).nil
       IN  /\ file' = IF known \/ bad THEN file
                      ELSE EncodeToFile([file EXCEPT !.keys =
                                            Put(@, username, PemDecode(pubkey).block)])
           /\ last' = Result("add-user", <<username>>, IF ~known /\ bad THEN "error" ELSE "ok",
                             ~known /\ ~bad, FALSE, pubkey.kind)
    /\ UNCHANGED <<disk, home, aside>>

\* an rm-user that leaves the user's secrets in the manifest
RmUserKeysOnly(username) ==
    /\ last = Idle
    /\ file.exists
    /\ LET known == username \in DOMAIN file.keys
       IN  /\ file' = IF ~known THEN file
                      ELSE EncodeToFile([file EXCEPT !.keys = Delete(@, username)])
           /\ last' = Result("rm-user", <<username>>, IF known THEN "ok" ELSE "error", known,
                             FALSE, "")
    /\ UNCHANGED <<disk, home, aside>>

RmUser(username) ==
    /\ last = Idle
    /\ file.exists
    /\ LET known == username \in DOMAIN file.keys
       IN  /\ file' = IF ~known THEN file
                      ELSE EncodeToFile([file EXCEPT !.keys = Delete(@, username),
                                                     !.secrets = Delete(@, username)])
           /\ last' = Result("rm-user", <<username>>, IF known THEN "ok" ELSE "error", known,
                             FALSE, "")
    /\ UNCHANGED <<disk, home, aside>>

----------------------------------------------------------------------------
(* The commands, run one after the other by the users U on the names N.    *)
(* faulty: the random source and the RSA encryption may fail.              *)

\* the $pubkey handed to add-user: the user's public key, a public key that
\* is not the user's, or text that is no PEM
PubkeyArgs(username) == {OwnBlock(username), StrangeBlock, NotPem}

\* the commands by the users U on the names N
Commands(U, N) ==
    \/ \E u \in U : InitShh(u)
    \/ MissingShh
    \/ \E u \in U, key \in N, p \in Plaintexts : Set(u, key, p, FALSE)
    \/ \E u \in U, pat \in N \cup {Wildcard} : Get(u, pat, "ok")
    \/ \E u \in U, pat \in N \cup {Wildcard} : Del(u, pat)
    \/ \E t \in U, pat \in N \cup {Wildcard} : Deny(t, pat)
    \/ \E u \in U, t \in U, pat \in N \cup {Wildcard} : Allow(u, t, pat, "ok", FALSE)
    \/ \E u \in U, pat \in N \cup {Wildcard}, p \in Plaintexts :
          Edit(u, pat, "ok", p, FALSE)
    \/ \E u \in U : Rotate(u, "ok", FALSE)
    \/ \E u \in U : AddSelf(u)
    \/ \E t \in U : \E pubkey \in PubkeyArgs(t) : AddUser(t, pubkey)
    \/ \E t \in U : RmUser(t)
    \/ Exit

\* two users and two secret names
Next == Commands({"alice", "bob"}, Names)

Spec == Init /\ [][Next]_vars

\* three users and one secret name
NextTeam == Commands(Users, {"db"})

SpecTeam == Init /\ [][NextTeam]_vars

----------------------------------------------------------------------------
(* The manifest is a text file under version control: it can be edited, or  *)
(* merged, outside the program.  One entry of alice, or her key block, is   *)
(* damaged at a time; the commands treat every user and name alike.         *)

\* the lengths a truncated ciphertext is cut to
ShortLens == {0, BlockSize - 1}

\* an entry as the commands write it for a user whose key block is block
Sound(sec, block) ==
    /\ sec.AESKey.b64 /\ sec.Encrypted.b64
    /\ Len(sec.Encrypted.data) >= BlockSize
    /\ block.kind = "RSA PUBLIC KEY" /\ sec.AESKey.data.pk = block.key

Damaged(shh) ==
    \E u \in DOMAIN shh.secrets :
       \/ u \notin DOMAIN shh.keys
       \/ \E k \in DOMAIN shh.secrets[u] : ~Sound(shh.secrets[u][k], shh.keys[u])

Damages == {"truncate", "base64", "rewrap", "key block", "no key"}

Damage(shh, u, k, kind, n) ==
    CASE kind = "truncate" ->
           [shh EXCEPT !.secrets[u][k].Encrypted.data = SubSeq(@, 1, n)]
      [] kind = "base64" -> [shh EXCEPT !.secrets[u][k].AESKey.b64 = FALSE]
      [] kind = "rewrap" -> [shh EXCEPT !.secrets[u][k].AESKey.data.pk = NoKeyPair]
      [] kind = "key block" -> [shh EXCEPT !.keys[u] = JunkBlock]
      [] kind = "no key" -> [shh EXCEPT !.keys = Delete(@, u)]

Tamper(u, k) ==
    /\ last = Idle
    /\ file.exists
    /\ ~Damaged(file)
    /\ u \in DOMAIN file.secrets /\ k \in DOMAIN file.secrets[u]
    /\ \E kind \in Damages, n \in ShortLens : file' = Damage(file, u, k, kind, n)
    /\ UNCHANGED <<disk, last, home, aside>>

\* the commands with a password that is not to be had, an editor that fails,
\* a random source and an RSA encryption that may fail, and add-user with a
\* PEM block that holds no public key
Failures(U, N) ==
    \/ \E u \in U, pat \in N \cup {Wildcard} : Get(u, pat, "password")
    \/ \E u \in U, t \in U, pat \in N \cup {Wildcard} : Allow(u, t, pat, "password", FALSE)
    \/ \E u \in U, pat \in N \cup {Wildcard}, how \in {"password", "editor", "noeditor"} :
          Edit(u, pat, how, << >>, FALSE)
    \/ \E u \in U : Rotate(u, "password", FALSE)
    \/ \E t \in U : AddUser(t, JunkBlock)
    \/ \E u \in U, key \in N, p \in Plaintexts : Set(u, key, p, TRUE)
    \/ \E u \in U, t \in U, pat \in N \cup {Wildcard} : Allow(u, t, pat, "ok", TRUE)
    \/ \E u \in U, pat \in N \cup {Wildcard}, p \in Plaintexts : Edit(u, pat, "ok", p, TRUE)
    \/ \E u \in U : Rotate(u, "ok", TRUE)

NextF ==
    \/ Commands({"alice", "bob"}, {"db"})
    \/ Failures({"alice", "bob"}, {"db"})
    \/ Tamper("alice", "db")

SpecF == Init /\ [][NextF]_vars

----------------------------------------------------------------------------
(* serve: the daemon.  One goroutine per request and the timer goroutine    *)
(* share password, the mutex mu, the channel resetTicker and the ticker.    *)
(* srv.now is the clock; deadline is when the ticker sends next, tickC      *)
(* that a tick waits in ticker.C; timer is where the timer goroutine is.    *)
(* Kept of the past: stored, when password was last assigned a body; quiet, *)
(* that no send on resetTicker was received since; reset and held, when     *)
(* the last send was received and the password at that moment.              *)

Paths == {"/", "/ping", "/reset-timer"}
Methods == {"GET", "POST"}
Bodies == {"", "p", "q"}

\* the requests of the clients: every path with both methods, a POST with
\* every body, a GET with and without a body, /ping without one
Requests ==
    {r \in [path : Paths, method : Methods, body : Bodies] :
        /\ r.path = "/ping" => r.body = ""
        /\ r.method = "GET" => r.body \in {"", "p"}}

\* time.NewTicker(tickTime) at time now: the first tick is due a window later
NewTicker(now) == now + Window

\* serve with no arguments: the daemon starts with no password
Serve ==
    /\ last = Idle
    /\ ~srv.up
    /\ srv' = [NoDaemon EXCEPT !.up = TRUE, !.deadline = NewTicker(NoDaemon.now)]
    /\ UNCHANGED <<file, disk, last, home, rot, cli>>

\* a request arrives and its handler starts: /ping is answered at once,
\* every other path goes on to mu.Lock()
Accept(i, path, method, body) ==
    /\ srv.up
    /\ srv.reqs[i].pc = "none"
    /\ \A j \in Reqs : j < i => srv.reqs[j].pc # "none"
    /\ srv' = [srv EXCEPT !.reqs[i] =
                 IF path = "/ping"
                   THEN [pc |-> "done", path |-> path, method |-> method,
                         body |-> body, status |-> 200, out |-> ""]
                   ELSE [pc |-> "lock", path |-> path, method |-> method,
                         body |-> body, status |-> 0, out |-> ""]]
    /\ UNCHANGED <<file, disk, last, home, rot, cli>>

\* mu.Lock() in a handler
Lock(i) ==
    /\ srv.reqs[i].pc = "lock"
    /\ srv.mu = Free
    /\ srv' = [srv EXCEPT !.mu = Handler(i),
                          !.reqs[i].pc = IF srv.reqs[i].path = "/reset-timer"
                                           THEN "send" ELSE "answer"]
    /\ UNCHANGED <<file, disk, last, home, rot, cli>>

\* resetTicker <- struct{}{}: the channel has no buffer, the send goes
\* through when the timer goroutine is at its select and takes this case
Send(i) ==
    /\ srv.reqs[i].pc = "send"
    /\ srv.timer = "select"
    /\ srv' = [srv EXCEPT !.reqs[i].pc = "answer", !.timer = "restart",
                          !.quiet = FALSE, !.reset = srv.now,
                          !.held = srv.password]
    /\ UNCHANGED <<file, disk, last, home, rot, cli>>

\* a handler that takes an empty body for a password
AnswerAnyBody(method, body, password) ==
    IF method = "GET" THEN [status |-> 200, out |-> password, password |-> password]
    ELSE [status |-> 200, out |-> "", password |-> body]

\* the handler from `if r.Method == "GET"` on: status, body of the answer and
\* the password it leaves
Answer(method, body, password) ==
    IF method = "GET" THEN [status |-> 200, out |-> password, password |-> password]
    ELSE IF body = "" THEN [status |-> 400, out |-> "empty body", password |-> password]
    ELSE [status |-> 200, out |-> "", password |-> body]

\* the rest of the handler, and the deferred mu.Unlock()
Respond(i) ==
    /\ srv.reqs[i].pc = "answer"
    /\ LET r == srv.reqs[i]
           a == Answer(r.method, r.body, srv.password)
           stores == r.method = "POST" /\ a.status = 200
       IN  srv' = [srv EXCEPT !.password = a.password,
                              !.mu = Free,
                              !.stored = IF stores THEN srv.now ELSE @,
                              !.quiet = IF stores THEN TRUE ELSE @,
                              !.reqs[i].pc = "done",
                              !.reqs[i].status = a.status,
                              !.reqs[i].out = a.out]
    /\ UNCHANGED <<file, disk, last, home, rot, cli>>

\* the client has its answer
Done(i) ==
    /\ srv.reqs[i].pc = "done"
    /\ srv' = [srv EXCEPT !.reqs[i] = NoRequest]
    /\ UNCHANGED <<file, disk, last, home, rot, cli>>

\* case <-ticker.C
TimerTick ==
    /\ srv.up
    /\ srv.timer = "select"
    /\ srv.tickC
    /\ srv' = [srv EXCEPT !.tickC = FALSE, !.timer = "lock"]
    /\ UNCHANGED <<file, disk, last, home, rot, cli>>

\* a restart that leaves the running ticker as it is
TimerRestartKeeps ==
    /\ srv.timer = "restart"
    /\ srv' = [srv EXCEPT !.timer = "select"]
    /\ UNCHANGED <<file, disk, last, home, rot, cli>>

\* case <-resetTicker: ticker.Stop(); ticker = time.NewTicker(tickTime)
TimerRestart ==
    /\ srv.timer = "restart"
    /\ srv' = [srv EXCEPT !.deadline = NewTicker(srv.now), !.tickC = FALSE,
                          !.timer = "select"]
    /\ UNCHANGED <<file, disk, last, home, rot, cli>>

\* mu.Lock() in the timer goroutine
TimerLock ==
    /\ srv.timer = "lock"
    /\ srv.mu = Free
    /\ srv' = [srv EXCEPT !.mu = TimerHolds, !.timer = "clear"]
    /\ UNCHANGED <<file, disk, last, home, rot, cli>>

\* a timer goroutine that unlocks and leaves the password
TimerClearKeeps ==
    /\ srv.timer = "clear"
    /\ srv' = [srv EXCEPT !.mu = Free, !.timer = "select"]
    /\ UNCHANGED <<file, disk, last, home, rot, cli>>

\* password = ""; mu.Unlock()
TimerClear ==
    /\ srv.timer = "clear"
    /\ srv' = [srv EXCEPT !.password = "", !.mu = Free, !.timer = "select"]
    /\ UNCHANGED <<file, disk, last, home, rot, cli>>

\* a goroutine of the daemon can take a step: a handler that is not blocked,
\* an answer that is to be read, or the timer goroutine when it is not blocked
Busy ==
    \/ \E i \in Reqs :
          \/ srv.reqs[i].pc \in {"answer", "done"}
          \/ srv.reqs[i].pc = "lock" /\ srv.mu = Free
          \/ srv.reqs[i].pc = "send" /\ srv.timer = "select"
    \/ srv.timer \in {"restart", "clear"}
    \/ srv.timer = "lock" /\ srv.mu = Free
    \/ srv.timer = "select" /\ srv.tickC

\* The clock goes on by one step, which is long against the steps of the
\* goroutines: it goes on when none of them can take a step.  The ticker
\* sends when its time has come, into a channel that holds one tick, and is
\* due again a window later.
Tick ==
    /\ srv.up
    /\ srv.now < MaxClock
    /\ ~Busy
    /\ srv' = [srv EXCEPT !.now = @ + 1,
                          !.tickC = @ \/ (srv.now + 1 = srv.deadline),
                          !.deadline = IF srv.now + 1 = @ THEN @ + Window ELSE @]
    /\ UNCHANGED <<file, disk, last, home, rot, cli>>

----------------------------------------------------------------------------
(* login *)

\* the password of the user's private key
PasswordOf(u) == "p"

\* login, against a daemon that is not serving another request: pingServer,
\* the cached password, else the prompt, getKeys and the POST of the password
Login(u, how) ==
    /\ last = Idle
    /\ srv.mu = Free
    /\ IF ~srv.up
         THEN /\ last' = Result("login", <<u>>, "error", FALSE, FALSE, "ping")
              /\ srv' = srv
       ELSE IF srv.password # ""
         THEN /\ last' = Result("login", <<u>>, "ok", FALSE, FALSE, "cached")
              /\ srv' = srv
       ELSE IF how = "password"
         THEN /\ last' = Result("login", <<u>>, "error", FALSE, TRUE, "password")
              /\ srv' = srv
       ELSE /\ last' = Result("login", <<u>>, "ok", FALSE, TRUE, "posted")
            /\ srv' = [srv EXCEPT !.password = PasswordOf(u), !.stored = srv.now,
                                  !.quiet = TRUE]
    /\ UNCHANGED <<file, disk, home, rot, cli>>

\* the daemon and its clients
NextServe ==
    \/ Serve
    \/ \E i \in Reqs, r \in Requests : Accept(i, r.path, r.method, r.body)
    \/ \E i \in Reqs : Lock(i)
    \/ \E i \in Reqs : Send(i)
    \/ \E i \in Reqs : Respond(i)
    \/ \E i \in Reqs : Done(i)
    \/ TimerTick
    \/ TimerRestart
    \/ TimerLock
    \/ TimerClear
    \/ Tick

SpecServe == Init /\ [][NextServe]_vars

\* login, and the daemon with one client
NextLogin ==
    \/ Serve
    \/ \E r \in Requests : Accept(1, r.path, r.method, r.body)
    \/ Lock(1)
    \/ Send(1)
    \/ Respond(1)
    \/ Done(1)
    \/ TimerTick
    \/ TimerRestart
    \/ TimerLock
    \/ TimerClear
    \/ Tick
    \/ \E how \in {"ok", "password"} : Login("alice", how)
    \/ Exit

SpecLogin == Init /\ [][NextLogin]_vars

----------------------------------------------------------------------------
(* The argument counts *)

\* the commands that take their arguments from the command line
Ops ==
    {"get", "set", "del", "edit", "allow", "deny", "add-user", "rm-user",
     "rotate", "serve", "login", "show"}

\* usage: the numbers of arguments of each command
Accepts(op) ==
    CASE op \in {"get", "del", "edit", "rm-user"} -> {1}
      [] op \in {"set", "allow"} -> {2}
      [] op = "deny" -> {1, 2}
      [] op = "add-user" -> {0, 2}
      [] op = "show" -> {0, 1}
      [] op \in {"rotate", "serve", "login"} -> {0}

\* The first statements of each command on n arguments: "pass" when they let
\* it go on, "error" when they return the bad args error, "panic" when they
\* index the arguments out of range.  deny returns the error for more than
\* two arguments and reads args[1] and args[0] when there is not exactly one.
ArgCheck(op, n) ==
    CASE op \in {"get", "del", "edit", "rm-user"} -> IF n # 1 THEN "error" ELSE "pass"
      [] op \in {"set", "allow"} -> IF n # 2 THEN "error" ELSE "pass"
      [] op = "deny" -> IF n > 2 THEN "error" ELSE IF n = 0 THEN "panic" ELSE "pass"
      [] op = "add-user" -> IF n # 0 /\ n # 2 THEN "error" ELSE "pass"
      [] op = "show" -> IF n > 1 THEN "error" ELSE "pass"
      [] op \in {"rotate", "serve", "login"} -> IF n # 0 THEN "error" ELSE "pass"

\* n arguments
SomeArgs(n) == [i \in 1..n |-> "x"]

\* a command that its first statements end: nothing is loaded or written.
\* run lets every command but serve start only where a .shh is found.
Usage(op, n) ==
    /\ last = Idle
    /\ file.exists \/ op = "serve"
    /\ ArgCheck(op, n) # "pass"
    /\ last' = Result(op, SomeArgs(n), ArgCheck(op, n), FALSE, FALSE,
                      IF ArgCheck(op, n) = "panic" THEN "index out of range"
                      ELSE "bad args")
    /\ UNCHANGED <<file, disk, home, aside>>

\* the commands of two users on one name, with every number of arguments
NextArgs ==
    \/ Commands({"alice", "bob"}, {"db"})
    \/ \E op \in Ops, n \in 0..MaxArgs : Usage(op, n)

SpecArgs == Init /\ [][NextArgs]_vars

----------------------------------------------------------------------------
(* rotate with file operations that fail, among the commands of two users *)

NextRotate ==
    \/ \E u \in {"alice", "bob"} : InitShh(u)
    \/ \E u \in {"alice", "bob"}, p \in Plaintexts : Set(u, "db", p, FALSE)
    \/ \E u \in {"alice", "bob"} : Get(u, "db", "ok")
    \/ \E u \in {"alice", "bob"} : Del(u, "db")
    \/ \E u \in {"alice", "bob"} : AddSelf(u)
    \/ \E u \in {"alice", "bob"}, how \in {"ok", "password"} : RotateBegin(u, how)
    \/ \E ok \in BOOLEAN : RotateStep(ok)
    \/ Exit

SpecRotate == Init /\ [][NextRotate]_vars

----------------------------------------------------------------------------
(* Two invocations at the same time.  Every command reads .shh whole       *)
(* (shhFromPath), works on its copy in memory and writes the file whole    *)
(* (EncodeToFile); nothing locks the file between the two.  An invocation  *)
(* is a load step and, later, a persist step; the steps of two invocations *)
(* interleave in every way.                                                *)

\* the commands that are run at the same time, by and for the users U, on
\* the names N
RaceCmds(U, N) ==
    {<<"set", <<u, key, p>>>> : u \in U, key \in N, p \in Plaintexts} \cup
    {<<"deny", <<t, key>>>> : t \in U, key \in N} \cup
    {<<"allow", <<u, t, key>>>> : u \in U, t \in U, key \in N} \cup
    {<<"rotate", <<u>>>> : u \in U}

\* an invocation that reads the manifest again when it comes to write
Reloaded(c) == file

\* the manifest an invocation works on: the one it has loaded
Loaded(c) == c.shh

\* set on the manifest shh
SetOn(shh, u, key, plaintext, r) ==
    LET own == IF u \in DOMAIN shh.secrets THEN shh
               ELSE [shh EXCEPT !.secrets = Put(@, u, EmptyMap)]
    IN  FanOut(own, r, OneOrder(SetTargets(own.secrets, u, key)), 1, key,
               plaintext, NoFault)

\* deny on the manifest shh
DenyOn(shh, username, pattern) ==
    LET got == GetSecretsForUser(shh, pattern, username)
    IN  IF got.err THEN [res |-> "error", shh |-> shh, note |-> "resolve"]
        ELSE [res |-> "ok", note |-> "",
              shh |-> RemoveSecrets(shh, username, DOMAIN got.secrets)]

\* allow on the manifest shh, by user u with the private key priv
AllowOn(shh, u, username, secretKey, priv, r) ==
    LET got == GetSecretsForUser(shh, secretKey, u)
        own == IF username \in DOMAIN shh.secrets THEN shh
               ELSE [shh EXCEPT !.secrets = Put(@, username, EmptyMap)]
    IN  IF username \notin DOMAIN shh.keys
          THEN [res |-> "error", shh |-> shh, note |-> "not a user"]
        ELSE IF ~ParsePKCS1PublicKey(shh.keys[username]).ok
          THEN [res |-> "error", shh |-> shh, note |-> "parse public key"]
        ELSE IF got.err THEN [res |-> "error", shh |-> shh, note |-> "resolve"]
        ELSE IF NoMatch(got.secrets)
          THEN [res |-> "error", shh |-> shh, note |-> "no matching secrets"]
        ELSE AllowLoop(own, got.secrets, priv,
                       ParsePKCS1PublicKey(shh.keys[username]).key, username, r,
                       OneOrder(DOMAIN got.secrets), 1, NoFault)

\* what the invocation c makes of the manifest shh, with r from rand.Reader;
\* gen is the generation of the acting user's private key when c read it
RunOn(c, shh, r) ==
    IF c.op = "set" THEN SetOn(shh, c.args[1], c.args[2], c.args[3], r)
    ELSE IF c.op = "deny" THEN DenyOn(shh, c.args[1], c.args[2])
    ELSE IF c.op = "allow"
      THEN AllowOn(shh, c.args[1], c.args[2], c.args[3],
                   KeyPair(c.args[1], c.gen), r)
    ELSE RotateLoop(shh, c.args[1], KeyPair(c.args[1], c.gen),
                    KeyPair(c.args[1], c.gen + 1), FALSE)

\* no invocation is in flight
Quiet == \A p \in Procs : cli.procs[p].pc = "none"

\* getKeys and shhFromPath(".shh"): the invocation has its copy of the
\* manifest.  One rotate runs at a time.
Load(p, op, args) ==
    /\ last = Idle
    /\ file.exists
    /\ cli.procs[p].pc = "none"
    /\ \A q \in Procs : q < p => cli.procs[q].pc # "none"
    /\ op = "rotate" =>
          /\ Generated(disk) < MaxGen
          /\ \A q \in Procs : cli.procs[q].pc = "loaded" => cli.procs[q].op # "rotate"
    /\ cli' = [procs |-> [cli.procs EXCEPT ![p] =
                             [pc |-> "loaded", op |-> op, args |-> args,
                              shh |-> file, gen |-> disk[args[1]], res |-> "",
                              stale |-> FALSE]],
               base  |-> IF Quiet THEN file ELSE cli.base,
               gens  |-> IF Quiet THEN disk ELSE cli.gens,
               wrote |-> cli.wrote]
    /\ UNCHANGED <<file, disk, last, home, rot, srv>>

\* the command has worked on its copy and returns: with shh.EncodeToFile()
\* when nothing failed (rotate then puts the new key pair in place), with
\* its error and no write otherwise.  The copy of an invocation that has
\* loaded and not yet written is stale from this write on.
Persist(p) ==
    /\ cli.procs[p].pc = "loaded"
    /\ \E r \in Rands :
         LET c == cli.procs[p]
             u == c.args[1]
             out == RunOn(c, Loaded(c), r)
             ok == out.res = "ok"
             turned == ok /\ c.op = "rotate"
         IN  /\ file' = IF ok THEN EncodeToFile(out.shh) ELSE file
             /\ disk' = IF turned THEN [disk EXCEPT ![u] = c.gen + 1] ELSE disk
             /\ home' = IF turned
                           THEN [home EXCEPT ![u].pub = c.gen + 1, ![u].minted = @ + 1]
                           ELSE home
             /\ cli' = [procs |-> [q \in Procs |->
                                     IF q = p
                                       THEN [c EXCEPT !.pc = "done", !.res = out.res]
                                     ELSE IF ok /\ cli.procs[q].pc = "loaded"
                                       THEN [cli.procs[q] EXCEPT !.stale = TRUE]
                                     ELSE cli.procs[q]],
                        base  |-> cli.base,
                        gens  |-> cli.gens,
                        wrote |-> IF ok THEN Append(cli.wrote, p) ELSE cli.wrote]
    /\ UNCHANGED <<last, rot, srv>>

\* the invocations have returned and the next ones can be given
Reap ==
    /\ \E p \in Procs : cli.procs[p].pc = "done"
    /\ \A p \in Procs : cli.procs[p].pc # "loaded"
    /\ cli' = NoRace
    /\ UNCHANGED <<file, disk, last, home, rot, srv>>

\* alice and bob set up a manifest with one command after the other, then
\* run two commands at a time
NextRace ==
    \/ \E u \in {"alice", "bob"} : Quiet /\ InitShh(u)
    \/ \E u \in {"alice", "bob"} : Quiet /\ AddSelf(u)
    \/ \E u \in {"alice", "bob"}, p \in Plaintexts : Quiet /\ Set(u, "db", p, FALSE)
    \/ Exit
    \/ \E p \in Procs : \E cmd \in RaceCmds({"alice", "bob"}, {"db"}) :
          Load(p, cmd[1], cmd[2])
    \/ \E p \in Procs : Persist(p)
    \/ Reap

SpecRace == Init /\ [][NextRace]_vars

----------------------------------------------------------------------------
(* Properties *)

Holds(shh, u, k) == u \in DOMAIN shh.secrets /\ k \in DOMAIN shh.secrets[u]

Holders(shh, k) == {u \in DOMAIN shh.secrets : k \in DOMAIN shh.secrets[u]}

\* the names of user u that pattern matches
Matched(shh, u, pattern) ==
    IF pattern = Wildcard THEN DOMAIN SecretsOf(shh, u)
    ELSE {pattern} \cap DOMAIN SecretsOf(shh, u)

\* what get prints for one stored secret under the private key priv
Plain(sec, priv) ==
    LET d == DecodeSecret(sec)
        aesKey == DecryptOAEP(priv, d.AESKey)
    IN  IF ~d.ok \/ ~aesKey.ok \/ Len(d.Encrypted) < BlockSize
          THEN [ok |-> FALSE, plaintext |-> << >>]
          ELSE [ok |-> TRUE, plaintext |-> CFBDecrypt(aesKey.aes, d.Encrypted)]

Readable(plaintext) == [ok |-> TRUE, plaintext |-> plaintext]

\* user x is in secrets, with the same entries, before and after the step
SameSecrets(x) ==
    /\ (x \in DOMAIN file'.secrets) <=> (x \in DOMAIN file.secrets)
    /\ SecretsOf(file', x) = SecretsOf(file, x)

SecretsHaveKeys == DOMAIN file.secrets \subseteq DOMAIN file.keys

\* rm-user has just removed bob, who is gone from keys and secrets, while
\* alice still holds a secret
SecretsHaveKeysWitness ==
    /\ last.op = "rm-user" /\ last.res = "ok" /\ last.args = <<"bob">>
    /\ "bob" \notin DOMAIN file.keys
    /\ "alice" \in DOMAIN file.keys
    /\ Holds(file, "alice", "db")

\* C3: a deny that returns leaves the target user without the matched names,
\* removes the user from secrets exactly when no name is left, changes no
\* other entry of the user or of another user and no public key, and asks for
\* no password.
DenyFrame ==
    [][(last = Idle /\ last'.op = "deny" /\ last'.res = "ok") =>
            LET t == last'.args[1]
                matched == Matched(file, t, last'.args[2])
                left == (DOMAIN SecretsOf(file, t)) \ matched
            IN  /\ \A k \in matched : ~Holds(file', t, k)
                /\ (t \in DOMAIN file'.secrets) <=> (left # {})
                /\ DOMAIN SecretsOf(file', t) = left
                /\ \A k \in left : file'.secrets[t][k] = file.secrets[t][k]
                /\ \A x \in Users \ {t} : SameSecrets(x)
                /\ file'.keys = file.keys
                /\ ~last'.pw /\ last'.persisted]_vars

\* deny has just taken the last name from alice: she is out of secrets and
\* still in keys, and bob still reads his entry
DenyFrameWitness ==
    /\ last.op = "deny" /\ last.res = "ok" /\ last.args[1] = "alice"
    /\ "alice" \notin DOMAIN file.secrets
    /\ "alice" \in DOMAIN file.keys
    /\ Holds(file, "bob", "db") /\ Holds(file, "bob", "api")
    /\ Plain(file.secrets["bob"]["db"], OwnKey("bob")) = Readable(<<7>>)

\* what C4 says of one set of key to plaintext by u
SetEffect(u, key, plaintext) ==
    /\ Holders(file', key) = {u} \cup Holders(file, key)
    /\ \A x \in Holders(file', key) :
          Plain(file'.secrets[x][key], file.keys[x].key) = Readable(plaintext)
    /\ \A x \in Users, k \in Names \ {key} :
          /\ Holds(file', x, k) <=> Holds(file, x, k)
          /\ Holds(file, x, k) => file'.secrets[x][k] = file.secrets[x][k]
    /\ file'.keys = file.keys
    /\ ~last'.pw

\* C4, as stated: set name value by user U writes a new entry for exactly U
\* and the users who held the name: after it U holds the name, no other user
\* gains it, every other name is held as before, and no password is asked for.
SetFanOutAsStated ==
    [][(last = Idle /\ last'.op = "set") =>
          (last'.res = "ok" /\ SetEffect(last'.args[1], last'.args[2], last'.args[3]))]_vars

\* C4, for a set that returns: it has written the value for exactly U and the
\* users who held the name.
SetFanOutWhenDone ==
    [][(last = Idle /\ last'.op = "set" /\ last'.res = "ok") =>
          SetEffect(last'.args[1], last'.args[2], last'.args[3])]_vars

\* set has just ended in a panic: the acting user has no key block
SetPanicWitness ==
    /\ last.op = "set" /\ last.res = "panic" /\ last.note = "nil key block"
    /\ last.args[1] \notin DOMAIN file.keys
    /\ ~last.persisted

\* what C5 says of one allow by u to username, the entries of the users in
\* kept being unchanged
AllowEffect(u, username, pattern, kept) ==
    LET matched == Matched(file, u, pattern)
    IN  /\ (username \notin DOMAIN file.keys \/ matched = {}) =>
              (last'.res = "error" /\ file' = file /\ ~last'.persisted)
        /\ last'.res = "ok" =>
              /\ DOMAIN SecretsOf(file', username)
                    = (DOMAIN SecretsOf(file, username)) \cup matched
              /\ \A k \in matched :
                    /\ Plain(file.secrets[u][k], OwnKey(u)).ok
                    /\ Plain(file'.secrets[username][k], file.keys[username].key)
                          = Plain(file.secrets[u][k], OwnKey(u))
              /\ \A k \in (DOMAIN SecretsOf(file, username)) \ matched :
                    file'.secrets[username][k] = file.secrets[username][k]
              /\ \A x \in kept : SameSecrets(x)
              /\ file'.keys = file.keys

\* C5, as stated: allow fails and leaves the manifest unchanged when the
\* grantee is not in keys or the acting user matches no secret; when it
\* succeeds the grantee gains entries for exactly the matched names, and the
\* acting user's and every third user's entries are unchanged.
AllowFrameAsStated ==
    [][(last = Idle /\ last'.op = "allow") =>
          AllowEffect(last'.args[1], last'.args[2], last'.args[3],
                      (Users \ {last'.args[2]}) \cup {last'.args[1]})]_vars

\* C5, amended: as stated, but the acting user's entries are unchanged only
\* when the grantee is another user; an allow to oneself writes one's matched
\* entries anew, with the same plaintext.
AllowFrame ==
    [][(last = Idle /\ last'.op = "allow") =>
          AllowEffect(last'.args[1], last'.args[2], last'.args[3],
                      Users \ {last'.args[2]})]_vars

\* an allow has just succeeded and all three users hold "db"
AllowFrameWitness ==
    /\ last.op = "allow" /\ last.res = "ok"
    /\ Holders(file, "db") = Users
    /\ \A x \in Users : Plain(file.secrets[x]["db"], OwnKey(x)) = Readable(<<7>>)

\* user u has a secret matching pattern whose ciphertext is shorter than a block
HasShort(shh, u, pattern) ==
    \E k \in Matched(shh, u, pattern) :
       Len(DecodeString(shh.secrets[u][k].Encrypted).data) < BlockSize

\* C6: get, allow and edit of a secret whose stored ciphertext is shorter than
\* the cipher block return an error, without a crash and without persisting.
ShortCiphertextIsError ==
    [][(/\ last = Idle
        /\ last'.op \in {"get", "allow", "edit"}
        /\ HasShort(file, last'.args[1],
                    IF last'.op = "allow" THEN last'.args[3] ELSE last'.args[2]))
       => (last'.res = "error" /\ ~last'.persisted /\ file' = file)]_vars

\* allow has just ended in a panic on the slice of a short ciphertext
ShortCiphertextPanic ==
    /\ last.op = "allow" /\ last.res = "panic" /\ last.note = "slice bounds"
    /\ last.args = <<"alice", "bob", "db">>
    /\ HasShort(file, "alice", "db")

\* the steps of a fan-out that C7 names
CryptoSteps == {"unwrap", "parse public key", "wrap", "rand", "iv"}

\* the users that the set of this step writes for
FanOutTargets == {last'.args[1]} \cup Holders(file, last'.args[2])

\* the secrets of the acting user that the allow, edit or rotate of this step
\* works on
Worked ==
    IF last'.op = "rotate" THEN DOMAIN SecretsOf(file, last'.args[1])
    ELSE Matched(file, last'.args[1],
                 IF last'.op = "allow" THEN last'.args[3] ELSE last'.args[2])

\* the wrapped key of the stored secret sec is not unwrapped by priv
NoUnwrap(sec, priv) ==
    /\ DecodeString(sec.AESKey).ok
    /\ ~DecryptOAEP(priv, DecodeString(sec.AESKey).data).ok

\* C7: when the unwrapping of a key, the parsing of a public key, the wrapping
\* of a key or the random source fails for one user or secret of the fan-out of
\* set, allow, edit or rotate, the command returns an error and the manifest
\* is what it was; a manifest is written only by a command that succeeded.
FailureKeepsManifest ==
    [][(last = Idle /\ last'.op \in {"set", "allow", "edit", "rotate"}) =>
        /\ last'.note \in CryptoSteps => last'.res = "error"
        /\ last'.res # "ok" => (file' = file /\ disk' = disk /\ ~last'.persisted)
        /\ (/\ last'.op = "set"
            /\ FanOutTargets \subseteq DOMAIN file.keys
            /\ \E x \in FanOutTargets : ~ParsePKCS1PublicKey(file.keys[x]).ok)
           => last'.res = "error"
        /\ (/\ last'.op \in {"allow", "edit", "rotate"}
            /\ \E k \in Worked :
                  NoUnwrap(file.secrets[last'.args[1]][k], OwnKey(last'.args[1])))
           => last'.res = "error"]_vars

\* the wrapping of a key has just failed in a set for two holders, and the
\* manifest still holds both entries
FailureKeepsManifestWitness ==
    /\ last.op = "set" /\ last.res = "error" /\ last.note = "wrap"
    /\ Holders(file, "db") = {"alice", "bob"}
    /\ ~Damaged(file)

\* C8: an edit whose editor returns content with the hash of the decrypted
\* plaintext succeeds without writing: the manifest is what it was.
EditUnchanged ==
    [][(/\ last = Idle
        /\ last'.op = "edit"
        /\ LET u == last'.args[1]
           IN  \E k \in Names :
                 /\ Matched(file, u, last'.args[2]) = {k}
                 /\ Plain(file.secrets[u][k], OwnKey(u)).ok
                 /\ Hash(Plain(file.secrets[u][k], OwnKey(u)).plaintext)
                       = Hash(last'.args[3]))
       => (last'.res = "ok" /\ ~last'.persisted /\ file' = file)]_vars

\* an edit has just returned without writing, alice and bob holding "db"
EditUnchangedWitness ==
    /\ last.op = "edit" /\ last.res = "ok" /\ ~last.persisted
    /\ last.args = <<"alice", "db", <<7>>>>
    /\ Holders(file, "db") = {"alice", "bob"}
    /\ Plain(file.secrets["alice"]["db"], OwnKey("alice")) = Readable(<<7>>)

\* C9: an edit whose pattern resolves to no secret or to more than one secret
\* of the acting user returns an error, without the editor and without writing.
EditNeedsOneMatch ==
    [][(/\ last = Idle
        /\ last'.op = "edit"
        /\ Cardinality(Matched(file, last'.args[1], last'.args[2])) # 1)
       => (last'.res = "error" /\ ~last'.persisted /\ file' = file)]_vars

\* an edit of "db" by alice, who holds no secret, has just succeeded and
\* written the manifest
EditWritten ==
    /\ last.op = "edit" /\ last.res = "ok" /\ last.persisted
    /\ last.args = <<"alice", "db", <<7>>>>
    /\ "alice" \notin DOMAIN file.secrets
    /\ Holders(file, "db") = {"bob"}

\* C10: after a rotate by U that succeeds, U holds the names held before, each
\* entry has the ciphertext it had and another wrapped key and decrypts under
\* the new private key to what it decrypted to under the old one, keys[U] is
\* the new public key, and the other users' keys and entries are unchanged.
RotateFrame ==
    [][(last = Idle /\ last'.op = "rotate" /\ last'.res = "ok") =>
            LET u == last'.args[1]
                newKey == KeyPair(u, disk'[u])
            IN  /\ disk'[u] = disk[u] + 1
                /\ (u \in DOMAIN file'.secrets) <=> (u \in DOMAIN file.secrets)
                /\ DOMAIN SecretsOf(file', u) = DOMAIN SecretsOf(file, u)
                /\ \A k \in DOMAIN SecretsOf(file, u) :
                      /\ file'.secrets[u][k].Encrypted = file.secrets[u][k].Encrypted
                      /\ file'.secrets[u][k].AESKey # file.secrets[u][k].AESKey
                      /\ Plain(file.secrets[u][k], OwnKey(u)).ok
                      /\ Plain(file'.secrets[u][k], newKey)
                            = Plain(file.secrets[u][k], OwnKey(u))
                /\ u \in DOMAIN file'.keys
                /\ file'.keys[u] = PublicKeyBlock(newKey)
                /\ \A x \in Users \ {u} :
                      /\ SameSecrets(x)
                      /\ (x \in DOMAIN file'.keys) <=> (x \in DOMAIN file.keys)
                      /\ x \in DOMAIN file.keys => file'.keys[x] = file.keys[x]
                      /\ disk'[x] = disk[x]]_vars

\* alice has just rotated her keys, holding two secrets, one of them with bob
RotateFrameWitness ==
    /\ last.op = "rotate" /\ last.res = "ok" /\ last.args = <<"alice">>
    /\ disk["alice"] = 1
    /\ "alice" \in DOMAIN file.keys
    /\ file.keys["alice"] = OwnBlock("alice")
    /\ Holds(file, "alice", "db") /\ Holds(file, "alice", "api")
    /\ Holds(file, "bob", "db")
    /\ Plain(file.secrets["alice"]["db"], OwnKey("alice")) = Readable(<<7>>)

----------------------------------------------------------------------------
(* rotate and the key files *)

\* both backups hold the key files as they were when rotate began
BackedUp(u) == home[u].bak = disk[u] /\ home[u].pubbak = home[u].pub

\* the manifest on disk names the public key of the pair in tmp/
Persisted(u) ==
    /\ u \in DOMAIN file.keys
    /\ file.keys[u] = PublicKeyBlock(KeyPair(u, home[u].tmp))

\* C11: the file operations of rotate come in the order backups, manifest,
\* key files, deletion of the backups, each after all the earlier ones have
\* succeeded: the manifest is written only when both backups are there, a
\* key file is replaced only when the manifest with the new key is written
\* (id_rsa.pub after id_rsa), a backup is deleted only when the manifest and
\* both key files are the new ones, and a rotate that fails at the manifest
\* or at a key file leaves both backups in place.
RotateOrder ==
    [][rot.pc # "none" =>
         LET u == rot.user
         IN  /\ rot.steps = SubSeq(RotateSteps, 1, StepIndex(rot.pc) - 1)
             /\ file' # file => BackedUp(u)
             /\ disk'[u] # disk[u] => Persisted(u) /\ home[u].bak = disk[u]
             /\ home'[u].pub # home[u].pub =>
                   Persisted(u) /\ disk[u] = home[u].tmp /\ home[u].pubbak = home[u].pub
             /\ (home'[u].bak = None /\ home[u].bak # None) \/
                (home'[u].pubbak = None /\ home[u].pubbak # None) =>
                   Persisted(u) /\ disk[u] = home[u].tmp /\ home[u].pub = home[u].tmp
             /\ (last'.res = "error" /\ last'.note \in
                     {"encode .shh", "replace id_rsa", "replace id_rsa.pub"}) =>
                   home'[u].bak # None /\ home'[u].pubbak # None]_vars

\* C11: a rotate of alice, who holds db, has run all its steps
RotateOrderWitness ==
    /\ last.op = "rotate" /\ last.res = "ok" /\ last.args = <<"alice">>
    /\ disk["alice"] = 1 /\ home["alice"].pub = 1
    /\ home["alice"].bak = None /\ home["alice"].pubbak = None
    /\ Holds(file, "alice", "db")
    /\ file.keys["alice"] = OwnBlock("alice")

\* the private key in id_rsa unwraps every entry of u in the manifest
Unwraps(u) ==
    \A k \in DOMAIN SecretsOf(file, u) :
       /\ DecodeString(file.secrets[u][k].AESKey).ok
       /\ DecryptOAEP(OwnKey(u), DecodeString(file.secrets[u][k].AESKey).data).ok

\* C20: when rotate has stopped, with nil or with an error, id_rsa and
\* id_rsa.pub hold one key pair, the manifest holds its public key for the
\* user, and the private key unwraps all the user's entries.
RotateKeepsPair ==
    (last.op = "rotate" /\ last.res # "running" /\ last.args[1] \in DOMAIN file.keys) =>
        LET u == last.args[1]
        IN  /\ disk[u] = home[u].pub
            /\ file.keys[u] = OwnBlock(u)
            /\ Unwraps(u)

\* C20: rotate has failed at the replacement of id_rsa: the manifest holds
\* the new public key and alice's entry is wrapped under it, id_rsa is the
\* old key, and the new pair is gone with tmp/
RotateStrandsKey ==
    /\ last.op = "rotate" /\ last.res = "error" /\ last.note = "replace id_rsa"
    /\ last.args = <<"alice">>
    /\ Holds(file, "alice", "db")
    /\ file.keys["alice"] # OwnBlock("alice")
    /\ ~Unwraps("alice")
    /\ home["alice"].tmp = None

----------------------------------------------------------------------------
(* del *)

----------------------------------------------------------------------------
(* The argument counts *)

\* a command has been ended by its first statements
EndedOnArgs(r) == r.op \in Ops /\ r.note \in {"bad args", "index out of range"}

\* C19: a command given a number of arguments it does not accept, none
\* included, returns an error, does not crash and leaves the manifest alone.
BadArgsIsError ==
    [][(last = Idle /\ EndedOnArgs(last') /\ Len(last'.args) \notin Accepts(last'.op)) =>
            /\ last'.res = "error"
            /\ ~last'.persisted
            /\ file' = file]_vars

\* C19, for every command but deny without arguments
BadArgsIsErrorButDeny ==
    [][(/\ last = Idle /\ EndedOnArgs(last')
        /\ Len(last'.args) \notin Accepts(last'.op)
        /\ ~(last'.op = "deny" /\ last'.args = << >>)) =>
            /\ last'.res = "error"
            /\ ~last'.persisted
            /\ file' = file]_vars

\* C19: deny without arguments, where a .shh with alice's secret is found,
\* has ended in a panic
DenyNoArgsPanics ==
    /\ last.op = "deny" /\ last.args = << >> /\ last.res = "panic"
    /\ Holds(file, "alice", "db")

----------------------------------------------------------------------------
(* The daemon *)

\* the handler of request i writes its answer in this step
Answers(i) == srv.reqs[i].pc # "done" /\ srv'.reqs[i].pc = "done"

\* the timer goroutine and the ticker are as before
SameTimer ==
    /\ srv'.deadline = srv.deadline
    /\ srv'.tickC = srv.tickC
    /\ srv'.timer = srv.timer

\* C12: when a password was stored by a POST, no send on resetTicker and no
\* other store has come since, and more than a full window of the clock has
\* passed since the store, the answer to a GET / is the empty string.
DaemonExpiry ==
    [][\A i \in Reqs :
          (/\ Answers(i)
           /\ srv.reqs[i].method = "GET" /\ srv.reqs[i].path = "/"
           /\ srv.stored # None /\ srv.quiet
           /\ srv.now > srv.stored + Window) =>
               srv'.reqs[i].out = ""]_vars

\* C12: p was stored at 0, nothing but the clock and the timer has moved
\* the daemon since, and a GET / after the window is answered with nothing
DaemonExpiryWitness ==
    /\ srv.stored = 0 /\ srv.quiet /\ srv.now = Window + 1
    /\ srv.password = ""
    /\ \E i \in Reqs :
          /\ srv.reqs[i].pc = "done" /\ srv.reqs[i].method = "GET"
          /\ srv.reqs[i].path = "/" /\ srv.reqs[i].out = ""

\* C13, as stated: when the timer goroutine has received a send on
\* resetTicker at time t while a password was cached, a GET / answered before
\* t + Window is answered with that password.
ResetKeepsThatPassword ==
    [][\A i \in Reqs :
          (/\ Answers(i)
           /\ srv.reqs[i].method = "GET" /\ srv.reqs[i].path = "/"
           /\ srv.reset # None /\ srv.held # ""
           /\ srv.now < srv.reset + Window) =>
               srv'.reqs[i].out = srv.held]_vars

\* C13: when the timer goroutine has received a send on resetTicker at time
\* t while a password was cached, a GET / answered before t + Window is
\* answered with the password stored last, which is not the empty string: the
\* timer has not cleared it, however far the window before had run at t.
ResetKeepsPassword ==
    [][\A i \in Reqs :
          (/\ Answers(i)
           /\ srv.reqs[i].method = "GET" /\ srv.reqs[i].path = "/"
           /\ srv.reset # None /\ srv.held # ""
           /\ srv.now < srv.reset + Window) =>
               /\ srv'.reqs[i].out = srv.password
               /\ srv'.reqs[i].out # ""]_vars

\* C13: the ticker of the start was due at Window; a reset came one step
\* before, and at Window a GET / is answered with the password
ResetKeepsPasswordWitness ==
    /\ srv.reset = Window - 1 /\ srv.held = "p" /\ srv.now = Window
    /\ srv.stored = 0
    /\ \E i \in Reqs :
          /\ srv.reqs[i].pc = "done" /\ srv.reqs[i].method = "GET"
          /\ srv.reqs[i].path = "/" /\ srv.reqs[i].out = "p"

\* C14: a request to /reset-timer, GET or POST, with or without a body,
\* leaves the password as it was, and the window starts anew: the timer
\* goroutine is about to make the new ticker or has made it.
ResetTimerKeepsPassword ==
    [][\A i \in Reqs :
          (Answers(i) /\ srv.reqs[i].path = "/reset-timer") =>
              /\ srv'.password = srv.password
              /\ \/ srv'.timer = "restart"
                 \/ srv'.deadline = NewTicker(srv.now) /\ ~srv'.tickC]_vars

\* C14: p was cached when the timer goroutine took the reset of a
\* POST /reset-timer with body q, and q is the password now
ResetTimerStores ==
    /\ srv.held = "p" /\ srv.password = "q"
    /\ \E i \in Reqs :
          /\ srv.reqs[i].pc = "done" /\ srv.reqs[i].path = "/reset-timer"
          /\ srv.reqs[i].method = "POST" /\ srv.reqs[i].body = "q"
          /\ srv.reqs[i].status = 200

\* C15: POST / with a body makes the body the password and answers 200;
\* POST / without one answers 400 and leaves the password; GET / answers with
\* the password, GET /ping with 200, and neither changes password or timer.
AnswerContract ==
    [][\A i \in Reqs :
          Answers(i) =>
             LET r == srv'.reqs[i]
             IN  /\ (r.path = "/" /\ r.method = "POST" /\ r.body # "") =>
                       srv'.password = r.body /\ r.status = 200
                 /\ (r.path = "/" /\ r.method = "POST" /\ r.body = "") =>
                       srv'.password = srv.password /\ r.status = 400
                 /\ (r.path = "/" /\ r.method = "GET") =>
                       /\ r.out = srv.password /\ r.status = 200
                       /\ srv'.password = srv.password /\ SameTimer
                 /\ (r.path = "/ping" /\ r.method = "GET") =>
                       /\ r.status = 200
                       /\ srv'.password = srv.password /\ SameTimer]_vars

\* C15: q is cached; a POST / without a body has been answered 400 and a
\* GET / with q
AnswerContractWitness ==
    /\ srv.password = "q"
    /\ srv.reqs[1].pc = "done" /\ srv.reqs[1].path = "/"
    /\ srv.reqs[1].method = "POST" /\ srv.reqs[1].body = "" /\ srv.reqs[1].status = 400
    /\ srv.reqs[2].pc = "done" /\ srv.reqs[2].path = "/"
    /\ srv.reqs[2].method = "GET" /\ srv.reqs[2].out = "q"

\* a handler holds mu and waits to send on resetTicker, and the timer
\* goroutine has left its select and waits for mu
LockedSend(i) ==
    /\ srv.reqs[i].pc = "send" /\ srv.mu = Handler(i)
    /\ srv.timer = "lock"

\* C16: no handler holds the lock, blocked in its send on resetTicker, while
\* the timer goroutine is blocked in mu.Lock().
NoLockedSend == \A i \in Reqs : ~LockedSend(i)

\* C16: handler and timer goroutine wait for each other, a second request
\* waits for the lock, the password is still there and the clock has run out
HandlersStuck ==
    /\ LockedSend(1)
    /\ srv.reqs[2].pc = "lock"
    /\ srv.password = "p"
    /\ srv.now = MaxClock

\* C24: a password stored by a POST, with no store after it, is the answer
\* to every GET / until a full window has passed since the store, wherever
\* the ticker was in its round when the password came.
StoredLastsWindow ==
    [][\A i \in Reqs :
          (/\ Answers(i)
           /\ srv.reqs[i].method = "GET" /\ srv.reqs[i].path = "/"
           /\ srv.stored # None
           /\ srv.now < srv.stored + Window) =>
               srv'.reqs[i].out # ""]_vars

\* C24: the password was stored one step before the tick of the ticker that
\* serve made at its start; no reset has come since, and one step after the
\* store a GET / is answered with nothing
ClearedEarly ==
    /\ srv.stored = Window - 1 /\ srv.quiet /\ srv.reset = None
    /\ srv.now = Window
    /\ srv.password = ""
    /\ \E i \in Reqs :
          /\ srv.reqs[i].pc = "done" /\ srv.reqs[i].method = "GET"
          /\ srv.reqs[i].path = "/" /\ srv.reqs[i].out = ""

----------------------------------------------------------------------------
(* two invocations at the same time *)

\* all holders of every name read, each with their own private key, the
\* same plaintext
OwnKeysRead(shh) ==
    \A k \in Names : \A u \in Holders(shh, k), v \in Holders(shh, k) :
        /\ Plain(shh.secrets[u][k], OwnKey(u)).ok
        /\ Plain(shh.secrets[u][k], OwnKey(u)) = Plain(shh.secrets[v][k], OwnKey(v))

\* all holders of every name have an entry that the private key of the key
\* registered for them opens, to the same plaintext
RegisteredKeysRead(shh) ==
    \A k \in Names : \A u \in Holders(shh, k), v \in Holders(shh, k) :
        /\ u \in DOMAIN shh.keys /\ v \in DOMAIN shh.keys
        /\ Plain(shh.secrets[u][k], shh.keys[u].key).ok
        /\ Plain(shh.secrets[u][k], shh.keys[u].key)
             = Plain(shh.secrets[v][k], shh.keys[v].key)

\* C21: when two mutating invocations run at the same time, each a load step
\* and later a whole-file persist step, every manifest that is persisted
\* satisfies both manifest invariants (every user in secrets is in keys; all
\* holders of a name decrypt to the same plaintext), in every interleaving.
RaceKeepsInvariants ==
    /\ DOMAIN file.secrets \subseteq DOMAIN file.keys
    /\ OwnKeysRead(file)

\* what does hold in every interleaving: every user in secrets is in keys, the
\* entries agree under the registered keys, and they agree under the users'
\* own private keys as long as no rotate has run
RaceKeepsManifestSound ==
    /\ DOMAIN file.secrets \subseteq DOMAIN file.keys
    /\ RegisteredKeysRead(file)
    /\ Generated(disk) = 0 => OwnKeysRead(file)

\* alice's rotate and a set have run at the same time and both have returned
\* nil; the set wrote last, from the manifest it had loaded before the rotate
\* wrote: alice's old public key is registered again, her private key is the
\* new one, and she cannot read her "db"
RaceStrandsKey ==
    /\ Len(cli.wrote) = 2
    /\ \A p \in Procs : cli.procs[p].pc = "done"
    /\ cli.procs[cli.wrote[1]].op = "rotate"
    /\ cli.procs[cli.wrote[1]].args = <<"alice">>
    /\ cli.procs[cli.wrote[2]].op = "set" /\ cli.procs[cli.wrote[2]].stale
    /\ disk["alice"] = 1
    /\ "alice" \in DOMAIN file.keys
    /\ file.keys["alice"].key = KeyPair("alice", 0)
    /\ Holds(file, "alice", "db")
    /\ ~Plain(file.secrets["alice"]["db"], OwnKey("alice")).ok

\* what the users can read in a manifest: the registered keys and, for every
\* entry, the plaintext under the registered key (two encryptions of one
\* plaintext differ in the AES key and the IV)
View(shh) ==
    [keys    |-> shh.keys,
     secrets |-> [u \in DOMAIN shh.secrets |->
                    [k \in DOMAIN shh.secrets[u] |->
                        IF u \in DOMAIN shh.keys
                          THEN Plain(shh.secrets[u][k], shh.keys[u].key)
                          ELSE [ok |-> FALSE, plaintext |-> << >>]]]]

\* the manifest after the invocation c, run alone on the manifest shh with
\* the private keys of the generations gens
Alone(c, shh, gens) ==
    LET out == RunOn([c EXCEPT !.gen = gens[c.args[1]]], shh, 1)
    IN  IF out.res = "ok" THEN EncodeToFile(out.shh) ELSE shh

\* the generations of the private keys after the invocation c, run alone
GensAfter(c, shh, gens) ==
    IF c.op = "rotate" /\ RunOn([c EXCEPT !.gen = gens[c.args[1]]], shh, 1).res = "ok"
      THEN [gens EXCEPT ![c.args[1]] = @ + 1]
      ELSE gens

\* the manifest after a and then b, one after the other, from the base
Serial(a, b) ==
    Alone(b, Alone(a, cli.base, cli.gens), GensAfter(a, cli.base, cli.gens))

\* both invocations have written the manifest and have returned
BothWrote ==
    /\ Len(cli.wrote) = 2
    /\ \A p \in Procs : cli.procs[p].pc = "done"

----------------------------------------------------------------------------
(* edit: the temporary file *)

\* the temporary file the command that has just run has left in os.TempDir
LeftBehind == IF "fi" \in DOMAIN last THEN last.fi ELSE NoTempFile

\* C23: when edit has terminated, by whatever path, the temporary file that
\* held the decrypted plaintext is no longer on disk.
EditRemovesTemp == last.op = "edit" => ~LeftBehind.exists

\* an edit has ended well on unchanged content and the file with the decrypted
\* plaintext is still there
EditLeavesPlaintext ==
    /\ last.op = "edit" /\ last.res = "ok" /\ last.note = "unchanged"
    /\ LeftBehind.exists
    /\ LeftBehind.copied /\ LeftBehind.content = <<7>>


----------------------------------------------------------------------------
(* login *)

\* C17: login, when the daemon is not reachable, goes on to ask for the
\* password as it does when the daemon has none.
LoginFallsBack ==
    [][(last = Idle /\ last'.op = "login" /\ ~srv.up) => last'.pw]_vars

\* C17: no daemon runs, and login has returned the error of pingServer
\* without asking for the password
LoginStopsAtPing ==
    /\ ~srv.up
    /\ last.op = "login" /\ last.res = "error" /\ last.note = "ping" /\ ~last.pw

====
